---- MODULE Spec2Model ----
(***************************************************************************)
(* Model of python/vscode_execute.py: the bridge that executes a user      *)
(* script inside the host's persistent interpreter state, reformats the    *)
(* traceback of a failing script and, in debug mode, swaps the host's      *)
(* three logging entry points for the duration of the script.              *)
(*                                                                         *)
(* Python strings are sequences of one-character strings, so that the      *)
(* traceback rewriting (substring test, regular expression, split, join,   *)
(* replace, strip) is computed character by character as the code does.    *)
(***************************************************************************)
EXTENDS Integers, Sequences, FiniteSets, TLC

\* ---------------------------------------------------------------- bounds
\* number of statements a script executes before it ends or raises
MaxOps == 2
\* traceback line numbers are drawn from {1, MaxLineNo}
MaxLineNo == 10

\* line of the exec(...) call inside execute_code
ExecLine == 116

\* ------------------------------------------------------- string helpers
Digits == <<"0","1","2","3","4","5","6","7","8","9">>

Upper == <<"A","B","C","D","E","F","G","H","I","J","K","L","M","N","O","P","Q","R","S","T","U","V","W","X","Y","Z">>

LowerAlpha == <<"a","b","c","d","e","f","g","h","i","j","k","l","m","n","o","p","q","r","s","t","u","v","w","x","y","z">>

Whitespace == {" ", "\n", "\t"}

\* str.isdigit() of one character
IsDigit(c) == \E i \in 1..Len(Digits) : Digits[i] = c

\* str(n) for a non-negative integer
RECURSIVE ToStr(_)
ToStr(n) == IF n < 10 THEN <<Digits[n + 1]>>
            ELSE ToStr(n \div 10) \o <<Digits[(n % 10) + 1]>>

\* "".join(parts)
RECURSIVE Concat(_)
Concat(parts) == IF parts = <<>> THEN <<>>
                 ELSE Head(parts) \o Concat(Tail(parts))

\* s[i:].startswith(p), 1-based
StartsAt(s, p, i) == /\ i + Len(p) - 1 <= Len(s)
                     /\ \A k \in 1..Len(p) : s[i + k - 1] = p[k]

\* p in s
Contains(s, p) == \E i \in 1..(Len(s) - Len(p) + 1) : StartsAt(s, p, i)

LowerChar(c) == IF \E i \in 1..Len(Upper) : Upper[i] = c
                THEN LowerAlpha[CHOOSE i \in 1..Len(Upper) : Upper[i] = c]
                ELSE c

\* s.lower()
Lower(s) == [i \in 1..Len(s) |-> LowerChar(s[i])]

\* s.find(c) + 1 : position of the first c, 0 when there is none
Find(s, c) == IF \E i \in 1..Len(s) : s[i] = c
              THEN CHOOSE i \in 1..Len(s) : s[i] = c /\ \A k \in 1..(i - 1) : s[k] # c
              ELSE 0

\* s.split(",", 2)
Split2(s) ==
    LET i1 == Find(s, ",")
        rest == SubSeq(s, i1 + 1, Len(s))
        i2 == Find(rest, ",")
    IN  IF i1 = 0 THEN <<s>>
        ELSE IF i2 = 0 THEN <<SubSeq(s, 1, i1 - 1), rest>>
        ELSE <<SubSeq(s, 1, i1 - 1), SubSeq(rest, 1, i2 - 1),
               SubSeq(rest, i2 + 1, Len(rest))>>

\* ",".join(components)
RECURSIVE JoinComma(_)
JoinComma(components) ==
    IF Len(components) = 0 THEN <<>>
    ELSE IF Len(components) = 1 THEN components[1]
    ELSE components[1] \o <<",">> \o JoinComma(Tail(components))

\* s.replace('"', "", 1)
ReplaceFirstQuote(s) ==
    LET i == Find(s, "\"")
    IN  IF i = 0 THEN s ELSE SubSeq(s, 1, i - 1) \o SubSeq(s, i + 1, Len(s))

\* s.strip()
Strip(s) ==
    LET keep == {i \in 1..Len(s) : s[i] \notin Whitespace}
    IN  IF keep = {} THEN <<>>
        ELSE SubSeq(s, CHOOSE i \in keep : \A k \in keep : i <= k,
                       CHOOSE i \in keep : \A k \in keep : k <= i)

\* re.findall(r'file ".*", line \d*, in ', s) is non-empty
\* ('.' does not match a newline; \d* is a possibly empty run of digits)
HeaderMatches(s) ==
    \E i \in 1..Len(s) :
        /\ StartsAt(s, <<"f","i","l","e"," ","\"">>, i)
        /\ \E j \in (i + 6)..Len(s) :
              /\ StartsAt(s, <<"\"",","," ","l","i","n","e"," ">>, j)
              /\ \A k \in (i + 6)..(j - 1) : s[k] # "\n"
              /\ \E e \in (j + 8)..Len(s) :
                    /\ StartsAt(s, <<","," ","i","n"," ">>, e)
                    /\ \A k \in (j + 8)..(e - 1) : IsDigit(s[k])

\* ------------------------------------------------ traceback formatting
execute_code_name == <<"e","x","e","c","u","t","e","_","c","o","d","e">>

\* the path of this module and the text of its exec(...) line
ModulePath == <<"v","s","c","o","d","e","_","e","x","e","c","u","t","e",".","p","y">>

ExecSource == <<"e","x","e","c","(","c","o","m","p","i","l","e","(","c","o","d","e",","," ","f","i","l","e","n","a","m","e",","," ","\"","e","x","e","c","\"",")",","," ","g","e","t","_","e","x","e","c","_","g","l","o","b","a","l","s","(",")",")">>

\* type(exc).__name__ as text
ClassName == [ValueError |-> <<"V","a","l","u","e","E","r","r","o","r">>, NameError |-> <<"N","a","m","e","E","r","r","o","r">>,
              SyntaxError |-> <<"S","y","n","t","a","x","E","r","r","o","r">>, SystemExit |-> <<"S","y","s","t","e","m","E","x","i","t">>,
              KeyboardInterrupt |-> <<"K","e","y","b","o","a","r","d","I","n","t","e","r","r","u","p","t">>, None |-> <<"N","o","n","e","T","y","p","e">>]

\* one entry of traceback.format_exception for a stack frame
FrameEntry(f) ==
    <<" "," ","F","i","l","e"," ","\"">> \o f.path \o <<"\"",","," ","l","i","n","e"," ">> \o ToStr(f.lineno) \o <<","," ","i","n"," ">> \o f.scope
    \o <<"\n">> \o (IF f.src = <<>> THEN <<>> ELSE <<" "," "," "," ">> \o f.src \o <<"\n">>)

\* the frame of execute_code itself, always the outermost one
InternalFrame == [path |-> ModulePath, lineno |-> ExecLine,
                  scope |-> execute_code_name, src |-> ExecSource]

RECURSIVE FrameEntries(_)
FrameEntries(frames) == IF frames = <<>> THEN <<>>
                        ELSE <<FrameEntry(Head(frames))>> \o FrameEntries(Tail(frames))

\* traceback.format_exception_only
ExceptionOnly(exc) ==
    IF exc.synline > 0
    THEN << <<" "," ","F","i","l","e"," ","\"">> \o exc.synpath \o <<"\"",","," ","l","i","n","e"," ">> \o ToStr(exc.synline) \o <<"\n">>,
            <<" "," "," "," ","x"," ","="," ","(","\n">>,
            <<" "," "," "," "," "," "," "," ","^","\n">>,
            ClassName[exc.cls] \o <<":"," ">> \o exc.msg \o <<"\n">> >>
    ELSE IF exc.msg = <<>> THEN << ClassName[exc.cls] \o <<"\n">> >>
    ELSE << ClassName[exc.cls] \o <<":"," ">> \o exc.msg \o <<"\n">> >>

\* traceback.format_exception(exception_type, exc, traceback_type)
format_exception(exc) ==
    << <<"T","r","a","c","e","b","a","c","k"," ","(","m","o","s","t"," ","r","e","c","e","n","t"," ","c","a","l","l"," ","l","a","s","t",")",":","\n">> >>
    \o FrameEntries(<<InternalFrame>> \o exc.frames)
    \o ExceptionOnly(exc)

\* the loop without the filter of line 122
Skipped_Never(line) == FALSE

\* line 122: the entry is skipped
Skipped(line) == Contains(line, execute_code_name)

\* lines 126-131: what is appended for an entry that is not skipped
Reformat(line) ==
    LET components == Split2(line)
        line_number == SelectSeq(components[2], IsDigit)
        head == <<"\"">> \o SubSeq(components[1], 1, Len(components[1]) - 1)
                \o <<":">> \o line_number \o <<"\"">>
        rewritten == IF HeaderMatches(Lower(line))
                     THEN JoinComma(<<head>> \o Tail(components))
                     ELSE line
    IN  ReplaceFirstQuote(rewritten)

\* lines 120-133: the loop over the formatted traceback
RECURSIVE TracebackLines(_)
TracebackLines(lines) ==
    IF lines = <<>> THEN <<>>
    ELSE IF Skipped(Head(lines)) THEN TracebackLines(Tail(lines))
    ELSE <<Reformat(Head(lines))>> \o TracebackLines(Tail(lines))

\* line 135
TracebackMessage(traceback_lines) == Strip(Concat(traceback_lines))

\* ------------------------------------------------------------ exceptions
\* direct base class of the built-in exception classes used here
Bases == [ValueError |-> "Exception", NameError |-> "Exception",
          SyntaxError |-> "Exception", Exception |-> "BaseException",
          SystemExit |-> "BaseException", KeyboardInterrupt |-> "BaseException",
          BaseException |-> "object"]

RECURSIVE IsSubclass(_, _)
IsSubclass(cls, base) == \/ cls = base
                         \/ cls \in DOMAIN Bases /\ IsSubclass(Bases[cls], base)

\* a handler that names one concrete class only
Caught_ValueErrorOnly(cls) == IsSubclass(cls, "ValueError")

\* line 117: except Exception
Caught(cls) == IsSubclass(cls, "Exception")

NoExc == [cls |-> "None", msg |-> <<>>, frames |-> <<>>, synline |-> 0, synpath |-> <<>>]

\* the logging statement placed after the try statement instead of in the handler
HandlerRuns_Always(e) == TRUE

\* lines 115-118: the handler body runs
HandlerRuns(e) == e # NoExc /\ Caught(e.cls)

\* --------------------------------------------------------------- inputs
LineNos == {1, MaxLineNo}

\* the value scripts bind names to
Vals == {<<"1">>}

Origins == {<<"a",".","p","y">>, <<"b",".","p","y">>}

NoneVar == [some |-> FALSE, val |-> <<>>]

NameVars == {NoneVar, [some |-> TRUE, val |-> <<>>], [some |-> TRUE, val |-> <<"_","_","m","a","i","n","_","_">>]}

\* bool(name_var)
Truthy(name_var) == name_var.some /\ name_var.val # <<>>

\* names a script binds or deletes at its top level
ScriptNames == {"x", "__name__", "__file__"}

LogFns == {"log", "log_error", "log_warning"}

\* the frame of the script's top level
ModuleFrame(origin, lineno, src) ==
    [path |-> origin, lineno |-> lineno, scope |-> <<"<","m","o","d","u","l","e",">">>, src |-> src]

\* exceptions raised by the scripts of Spec
SimpleExcs(origin) ==
    {[cls |-> c, msg |-> <<"m">>, frames |-> <<ModuleFrame(origin, 1, <<>>)>>,
      synline |-> 0, synpath |-> <<>>] : c \in {"ValueError", "SystemExit", "KeyboardInterrupt"}}

\* origin paths of SpecFmt: plain, with a comma, with a quote and a digit
FmtOrigins == {<<"a",".","p","y">>, <<"a",",","b",".","p","y">>, <<"a","\"","1",".","p","y">>}

\* the frames of a failing script: its top level, then possibly a function
\* of the script or of a library it calls
FmtFrames(origin) ==
    LET tops == {ModuleFrame(origin, n, src) : n \in LineNos, src \in {<<>>, <<"f","(","1",",","2",")">>}}
        inner == {[path |-> p, lineno |-> n, scope |-> sc, src |-> <<>>] :
                     p \in {origin, <<"l","i","b",".","p","y">>}, n \in LineNos,
                     sc \in {<<"f">>, <<"r","u","n","_","e","x","e","c","u","t","e","_","c","o","d","e">>}}
    IN  {<<t>> : t \in tops} \cup {<<t, i>> : t \in tops, i \in inner}

\* exceptions raised by the scripts of SpecFmt
RichExcs(origin) ==
    {[cls |-> c, msg |-> m, frames |-> fs, synline |-> 0, synpath |-> <<>>] :
        c \in {"ValueError", "SystemExit"},
        m \in {<<>>, <<"m">>, <<"e","x","e","c","u","t","e","_","c","o","d","e"," ","f","a","i","l","e","d">>},
        fs \in FmtFrames(origin)}

\* ------------------------------------------------------------ the state
VARIABLES
    pc,               \* position in main / execute_code
    cur,              \* arguments of the running invocation of main
    module_globals,   \* globals() of this module (only "__VsCodeVariables__")
    unreal,           \* unreal.log, unreal.log_error, unreal.log_warning
    shim,             \* the UnrealLogRedirectDebugging instance of the with-block
    steps,            \* statements the script has executed
    exc,              \* exception raised by compile/exec, NoExc when none
    traceback_lines,  \* local of execute_code's handler
    calls,            \* calls of the three entry points during this invocation,
                      \* as a multiset: script calls are kept ordered by entry point
    script_bound,     \* names the running script has bound (and not deleted)
    prev_bound,       \* the same for the previous invocation
    had_name,         \* "__name__" was in the namespace when main was called
    pre_entry,        \* the three entry points just before the with-block
    created           \* number of times the shared namespace was created

vars == <<pc, cur, module_globals, unreal, shim, steps, exc, traceback_lines,
          calls, script_bound, prev_bound, had_name, pre_entry, created>>

HostHandlers == [log |-> "host.log", log_error |-> "host.log_error",
                 log_warning |-> "host.log_warning"]

NoHandlers == [log |-> "none", log_error |-> "none", log_warning |-> "none"]

NoShim == [original_log |-> "none", original_log_error |-> "none",
           original_log_warning |-> "none"]

NoCall == [exec_origin |-> <<>>, is_debugging |-> FALSE, name_var |-> NoneVar]

EmptyDict == [n \in {} |-> <<>>]

\* where a handler delivers the message it is called with
SinkOf == [x \in {"host.log", "host.log_error", "host.log_warning",
                  "redirect", "redirect_error", "redirect_warning"} |->
           CASE x = "redirect" -> "stdout"
             [] x = "redirect_error" -> "logger.error"
             [] x = "redirect_warning" -> "logger.warning"
             [] OTHER -> x]

\* d[k] = v
SetItem(d, k, v) == [n \in DOMAIN d \cup {k} |-> IF n = k THEN v ELSE d[n]]

\* d.pop(k)
Pop(d, k) == [n \in DOMAIN d \ {k} |-> d[n]]

\* lines 109-110: the namespace as first created
NewNamespace == [n \in {"__builtins__", "__IsVsCodeExec__"} |->
                 IF n = "__builtins__" THEN <<"<module builtins>">> ELSE <<"True">>]

\* a namespace built anew on every call
get_exec_globals_Fresh(g) == SetItem(g, "__VsCodeVariables__", NewNamespace)

\* lines 106-111, the effect on globals()
get_exec_globals(g) ==
    IF "__VsCodeVariables__" \notin DOMAIN g
    THEN SetItem(g, "__VsCodeVariables__", NewNamespace)
    ELSE g

\* the shared namespace
Namespace == module_globals["__VsCodeVariables__"]

\* lines 144-146 without the elif branch
SetupNamespace_NoPop(d, exec_origin, name_var) ==
    LET d1 == SetItem(d, "__file__", exec_origin)
    IN  IF Truthy(name_var) THEN SetItem(d1, "__name__", name_var.val) ELSE d1

\* __file__ set only when the namespace has none yet
SetupNamespace_KeepFile(d, exec_origin, name_var) ==
    LET d1 == IF "__file__" \in DOMAIN d THEN d ELSE SetItem(d, "__file__", exec_origin)
    IN  IF Truthy(name_var) THEN SetItem(d1, "__name__", name_var.val)
        ELSE IF "__name__" \in DOMAIN d1 THEN Pop(d1, "__name__")
        ELSE d1

\* lines 144-148
SetupNamespace(d, exec_origin, name_var) ==
    LET d1 == SetItem(d, "__file__", exec_origin)
    IN  IF Truthy(name_var) THEN SetItem(d1, "__name__", name_var.val)
        ELSE IF "__name__" \in DOMAIN d1 THEN Pop(d1, "__name__")
        ELSE d1

\* lines 82-84
Redirect_init(u) == [original_log |-> u.log, original_log_error |-> u.log_error,
                     original_log_warning |-> u.log_warning]

\* __enter__ that leaves unreal.log_error alone
Redirect_enter_NoError(u) == [log |-> "redirect", log_error |-> u.log_error,
                              log_warning |-> "redirect_warning"]

\* lines 96-98
Redirect_enter(u) == [log |-> "redirect", log_error |-> "redirect_error",
                      log_warning |-> "redirect_warning"]

\* __exit__ that forgets unreal.log_warning
Redirect_exit_NoWarning(s) == [log |-> s.original_log, log_error |-> s.original_log_error,
                               log_warning |-> "redirect_warning"]

\* lines 101-103
Redirect_exit(s) == [log |-> s.original_log, log_error |-> s.original_log_error,
                     log_warning |-> s.original_log_warning]

\* unreal.<fn>(msg) as seen by the sinks
Call(fn, by, msg) == [fn |-> fn, by |-> by, sink |-> SinkOf[unreal[fn]], msg |-> msg]

FnRank == [log |-> 1, log_error |-> 2, log_warning |-> 3]

\* record a call of the script in the multiset of calls
Record(cs, c) ==
    LET before == SelectSeq(cs, LAMBDA o : FnRank[o.fn] <= FnRank[c.fn])
        after == SelectSeq(cs, LAMBDA o : FnRank[o.fn] > FnRank[c.fn])
    IN  before \o <<c>> \o after

Init ==
    /\ pc = "idle"
    /\ cur = NoCall
    /\ module_globals = EmptyDict
    /\ unreal = HostHandlers
    /\ shim = NoShim
    /\ steps = 0
    /\ exc = NoExc
    /\ traceback_lines = <<>>
    /\ calls = <<>>
    /\ script_bound = EmptyDict
    /\ prev_bound = EmptyDict
    /\ had_name = FALSE
    /\ pre_entry = NoHandlers
    /\ created = 0

\* lines 140-152: main up to the point where the file is open and read
main(origins, name_vars) ==
    \E exec_origin \in origins, is_debugging \in BOOLEAN, name_var \in name_vars :
        LET g == get_exec_globals(module_globals)
        IN  /\ pc = "idle"
            /\ created' = IF g = module_globals THEN created ELSE created + 1
            /\ had_name' = ("__VsCodeVariables__" \in DOMAIN module_globals
                            /\ "__name__" \in DOMAIN Namespace)
            /\ module_globals' = SetItem(g, "__VsCodeVariables__",
                   SetupNamespace(g["__VsCodeVariables__"], exec_origin, name_var))
            /\ cur' = [exec_origin |-> exec_origin, is_debugging |-> is_debugging,
                       name_var |-> name_var]
            /\ calls' = <<>>
            /\ script_bound' = EmptyDict
            /\ pc' = "opened"
            /\ UNCHANGED <<unreal, shim, steps, exc, traceback_lines, prev_bound, pre_entry>>

Main == main(Origins, NameVars)

\* line 152: open(exec_file) raises, main ends before any script runs
MainOpenFails ==
    /\ pc = "opened"
    /\ pc' = "idle"
    /\ cur' = NoCall
    /\ prev_bound' = EmptyDict
    /\ had_name' = FALSE
    /\ UNCHANGED <<module_globals, unreal, shim, steps, exc, traceback_lines, calls,
                   script_bound, pre_entry, created>>

\* lines 153-156: not debugging, execute_code is called directly
CallDirect ==
    /\ pc = "opened"
    /\ ~cur.is_debugging
    /\ pre_entry' = unreal
    /\ pc' = "execute_code"
    /\ UNCHANGED <<cur, module_globals, unreal, shim, steps, exc, traceback_lines,
                   calls, script_bound, prev_bound, had_name, created>>

\* lines 157-158: with UnrealLogRedirectDebugging(): __init__ then __enter__
EnterRedirect ==
    /\ pc = "opened"
    /\ cur.is_debugging
    /\ pre_entry' = unreal
    /\ shim' = Redirect_init(unreal)
    /\ unreal' = Redirect_enter(unreal)
    /\ pc' = "execute_code"
    /\ UNCHANGED <<cur, module_globals, steps, exc, traceback_lines, calls,
                   script_bound, prev_bound, had_name, created>>

\* line 116: compile(code, filename, "exec"), then get_exec_globals() and exec
Compile ==
    /\ pc = "execute_code"
    /\ \/ \E n \in LineNos :
             /\ exc' = [cls |-> "SyntaxError", msg |-> <<"i","n","v","a","l","i","d"," ","s","y","n","t","a","x">>, frames |-> <<>>,
                        synline |-> n, synpath |-> cur.exec_origin]
             /\ pc' = "exec_done"
             /\ UNCHANGED <<module_globals, created>>
       \/ LET g == get_exec_globals(module_globals)
          IN  /\ module_globals' = g
              /\ created' = IF g = module_globals THEN created ELSE created + 1
              /\ pc' = "script"
              /\ exc' = NoExc
    /\ steps' = 0
    /\ UNCHANGED <<cur, unreal, shim, traceback_lines, calls, script_bound,
                   prev_bound, had_name, pre_entry>>

\* the script executes  name = val  at its top level
ScriptBind ==
    \E name \in ScriptNames, val \in Vals :
        /\ pc = "script"
        /\ steps < MaxOps
        /\ steps' = steps + 1
        /\ module_globals' = SetItem(module_globals, "__VsCodeVariables__",
                                     SetItem(Namespace, name, val))
        /\ script_bound' = SetItem(script_bound, name, val)
        /\ UNCHANGED <<pc, cur, unreal, shim, exc, traceback_lines, calls,
                       prev_bound, had_name, pre_entry, created>>

\* the script executes  del name  for a name that is bound
ScriptDel ==
    \E name \in ScriptNames :
        /\ pc = "script"
        /\ steps < MaxOps
        /\ name \in DOMAIN Namespace
        /\ steps' = steps + 1
        /\ module_globals' = SetItem(module_globals, "__VsCodeVariables__",
                                     Pop(Namespace, name))
        /\ script_bound' = Pop(script_bound, name)
        /\ UNCHANGED <<pc, cur, unreal, shim, exc, traceback_lines, calls,
                       prev_bound, had_name, pre_entry, created>>

\* the script calls unreal.log, unreal.log_error or unreal.log_warning
ScriptLog ==
    \E fn \in LogFns :
        /\ pc = "script"
        /\ steps < MaxOps
        /\ steps' = steps + 1
        /\ calls' = Record(calls, Call(fn, "script", <<"h","i">>))
        /\ UNCHANGED <<pc, cur, module_globals, unreal, shim, exc, traceback_lines,
                       script_bound, prev_bound, had_name, pre_entry, created>>

\* the script raises
ScriptRaise(excs) ==
    \E e \in excs :
        /\ pc = "script"
        /\ exc' = e
        /\ pc' = "exec_done"
        /\ steps' = 0
        /\ UNCHANGED <<cur, module_globals, unreal, shim, traceback_lines,
                       calls, script_bound, prev_bound, had_name, pre_entry, created>>

Raise == ScriptRaise(SimpleExcs(cur.exec_origin))

\* the script runs to its end, exec returns
ScriptEnd ==
    /\ pc = "script"
    /\ pc' = "exec_done"
    /\ steps' = 0
    /\ UNCHANGED <<cur, module_globals, unreal, shim, exc, traceback_lines,
                   calls, script_bound, prev_bound, had_name, pre_entry, created>>

\* lines 115-137: execute_code after compile/exec: the handler logs the
\* reformatted traceback of a caught exception; otherwise execute_code
\* returns, or the exception leaves it
Finish ==
    /\ pc = "exec_done"
    /\ IF HandlerRuns(exc)
       THEN LET lines == TracebackLines(format_exception(exc))
            IN  /\ traceback_lines' = lines
                /\ calls' = Append(calls, Call("log_error", "execute_code",
                                               TracebackMessage(lines)))
                /\ pc' = "return"
       ELSE /\ pc' = IF exc = NoExc THEN "return" ELSE "raise"
            /\ UNCHANGED <<traceback_lines, calls>>
    /\ UNCHANGED <<cur, module_globals, unreal, shim, steps, exc, script_bound,
                   prev_bound, had_name, pre_entry, created>>

\* lines 100-103: the with-block is left, by return or by exception
ExitRedirect ==
    /\ pc \in {"return", "raise"}
    /\ cur.is_debugging
    /\ unreal' = Redirect_exit(shim)
    /\ shim' = NoShim
    /\ pc' = IF pc = "return" THEN "exited" ELSE "exited_raise"
    /\ UNCHANGED <<cur, module_globals, steps, exc, traceback_lines, calls,
                   script_bound, prev_bound, had_name, pre_entry, created>>

\* main returns, or the uncaught exception leaves main
MainEnd ==
    /\ \/ pc \in {"exited", "exited_raise"}
       \/ pc \in {"return", "raise"} /\ ~cur.is_debugging
    /\ pc' = "idle"
    /\ cur' = NoCall
    /\ steps' = 0
    /\ exc' = NoExc
    /\ traceback_lines' = <<>>
    /\ calls' = <<>>
    /\ prev_bound' = script_bound
    /\ script_bound' = EmptyDict
    /\ pre_entry' = NoHandlers
    /\ had_name' = FALSE
    /\ UNCHANGED <<module_globals, unreal, shim, created>>

Next ==
    \/ Main
    \/ MainOpenFails
    \/ CallDirect
    \/ EnterRedirect
    \/ Compile
    \/ ScriptBind
    \/ ScriptDel
    \/ ScriptLog
    \/ Raise
    \/ ScriptEnd
    \/ Finish
    \/ ExitRedirect
    \/ MainEnd

Spec == Init /\ [][Next]_vars

\* --------------------------------------------- traceback specification
\* scripts that only fail, with the variety of paths, frames and messages
FmtMain == main(FmtOrigins, {NoneVar})

FmtRaise == ScriptRaise(RichExcs(cur.exec_origin))

NextFmt ==
    \/ FmtMain
    \/ CallDirect
    \/ EnterRedirect
    \/ Compile
    \/ FmtRaise
    \/ Finish
    \/ ExitRedirect
    \/ MainEnd

SpecFmt == Init /\ [][NextFmt]_vars

\* ------------------------------------------------------------ properties
\* the script is about to execute its first statement
ScriptStart == pc = "script" /\ steps = 0

\* execute_code has returned to main
Returned == pc \in {"return", "exited"}

\* an exception has left execute_code
Escaped == pc \in {"raise", "exited_raise"}

Ended == Returned \/ Escaped

\* calls of unreal.log_error during this invocation, by anyone
ErrorCalls == SelectSeq(calls, LAMBDA c : c.fn = "log_error")

\* calls made by execute_code itself
OwnCalls == SelectSeq(calls, LAMBDA c : c.by = "execute_code")

\* the text has a frame header whose scope is execute_code
HasInternalFrame(text) == Contains(text, <<","," ","i","n"," ","e","x","e","c","u","t","e","_","c","o","d","e">>)

\* names main itself rebinds or removes before the script runs
ManagedNames == {"__file__", "__name__"}

RedirectSink == [log |-> "stdout", log_error |-> "logger.error",
                 log_warning |-> "logger.warning"]

RedirectHandlers == [log |-> "redirect", log_error |-> "redirect_error",
                     log_warning |-> "redirect_warning"]

\* C1 as claimed: whenever the script raised, unreal.log_error was called
\* exactly once during the invocation, with a message that has no frame of
\* execute_code.
C1_AsClaimed ==
    (Ended /\ exc # NoExc) =>
        /\ Len(ErrorCalls) = 1
        /\ ~HasInternalFrame(ErrorCalls[1].msg)

\* C1 amended: when the script raised an exception derived from Exception
\* (a syntax error included), execute_code itself has called unreal.log_error
\* exactly once, on top of the calls of the script, and neither the message
\* nor any emitted line has a frame of execute_code; when the exception
\* derives from BaseException only, execute_code has logged nothing.
C1_OneMessageNoInternalFrame ==
    (Ended /\ exc # NoExc) =>
        IF IsSubclass(exc.cls, "Exception")
        THEN /\ Len(OwnCalls) = 1
             /\ OwnCalls[1].fn = "log_error"
             /\ ~HasInternalFrame(OwnCalls[1].msg)
             /\ \A i \in 1..Len(traceback_lines) : ~HasInternalFrame(traceback_lines[i])
        ELSE Len(OwnCalls) = 0

\* a script that itself called unreal.log_error has raised a caught exception
C1_Witness ==
    /\ Returned
    /\ exc # NoExc
    /\ Len(ErrorCalls) = 2
    /\ Len(OwnCalls) = 1

\* C2 as claimed: no exception ever leaves execute_code.
C2_AsClaimed == ~Escaped

\* C2 amended: every failure whose class derives from Exception (syntax
\* errors included) makes execute_code return normally with the failure
\* logged as one non-empty message; the only exceptions that leave
\* execute_code derive from BaseException but not from Exception.
C2_ExceptionsNeverEscape ==
    /\ (Ended /\ exc # NoExc /\ IsSubclass(exc.cls, "Exception")) =>
          /\ Returned
          /\ Len(OwnCalls) = 1
          /\ OwnCalls[1].msg # <<>>
    /\ Escaped => (exc # NoExc /\ ~IsSubclass(exc.cls, "Exception"))

\* a syntax error has been turned into a logged message
C2_Witness ==
    /\ Returned
    /\ exc.cls = "SyntaxError"
    /\ Len(OwnCalls) = 1

\* C3: once the with-block of the shim is left, by return or by exception,
\* the three entry points are the ones from before the block, and whenever
\* no invocation is executing they are the host's original ones.
C3_HandlersRestored ==
    /\ pc \in {"exited", "exited_raise"} => unreal = pre_entry
    /\ pc = "idle" => unreal = HostHandlers

\* an exception has left the with-block of a debug invocation
C3_Witness ==
    /\ pc = "exited_raise"
    /\ cur.is_debugging
    /\ exc # NoExc

\* C4 as claimed: every name the previous script left bound is bound to the
\* same value when the next script starts.
C4_AsClaimed ==
    ScriptStart =>
        \A n \in DOMAIN prev_bound :
            n \in DOMAIN Namespace /\ Namespace[n] = prev_bound[n]

\* C4 amended: the namespace is created once, and every name other than
\* __file__ and __name__ that the previous script left bound is bound to the
\* same value when the next script starts.
C4_NamespacePersists ==
    /\ created <= 1
    /\ ScriptStart =>
          \A n \in DOMAIN prev_bound \ ManagedNames :
              n \in DOMAIN Namespace /\ Namespace[n] = prev_bound[n]

\* a script starts after a script that bound x
C4_Witness ==
    /\ ScriptStart
    /\ "x" \in DOMAIN prev_bound

\* C5: when main is called without a name_var while the namespace holds a
\* __name__ (from an earlier name_var or bound by an earlier script), the
\* namespace has no __name__ when the script starts.
C5_NameRemoved ==
    (ScriptStart /\ ~cur.name_var.some /\ had_name) =>
        "__name__" \notin DOMAIN Namespace

\* a script starts in a call without name_var made while __name__ was bound
C5_Witness ==
    /\ ScriptStart
    /\ ~cur.name_var.some
    /\ had_name

\* C6 as claimed: when the script starts, __file__ is the origin path,
\* __name__ is the supplied name_var whatever its value, and __name__ is
\* absent only when no name_var was supplied.
C6_AsClaimed ==
    ScriptStart =>
        /\ "__file__" \in DOMAIN Namespace
        /\ Namespace["__file__"] = cur.exec_origin
        /\ cur.name_var.some =>
              ("__name__" \in DOMAIN Namespace
               /\ Namespace["__name__"] = cur.name_var.val)
        /\ "__name__" \notin DOMAIN Namespace => ~cur.name_var.some

\* C6 amended: when the script starts, __file__ is the origin path, __name__
\* is the supplied name_var when that is a non-empty string, and __name__ is
\* absent exactly when name_var was omitted, None or the empty string.
C6_SetupBeforeScript ==
    ScriptStart =>
        /\ "__file__" \in DOMAIN Namespace
        /\ Namespace["__file__"] = cur.exec_origin
        /\ (cur.name_var.some /\ cur.name_var.val # <<>>) =>
              ("__name__" \in DOMAIN Namespace
               /\ Namespace["__name__"] = cur.name_var.val)
        /\ "__name__" \notin DOMAIN Namespace
              <=> (~cur.name_var.some \/ cur.name_var.val = <<>>)

\* a script starts in a call that supplied a name_var, after an invocation
\* whose script rebound __file__
C6_Witness ==
    /\ ScriptStart
    /\ cur.name_var.some
    /\ cur.name_var.val # <<>>
    /\ "__file__" \in DOMAIN prev_bound

\* C7: when compile and exec raised nothing, execute_code returns normally
\* and has not called unreal.log_error, in debug and non-debug mode.
C7_SuccessIsSilent ==
    (Ended /\ exc = NoExc) =>
        /\ Returned
        /\ Len(OwnCalls) = 0

\* a script that executed statements has ended without an exception
C7_Witness ==
    /\ pc = "return"
    /\ exc = NoExc
    /\ script_bound # EmptyDict

\* C8 as claimed: for every frame of the failing script that is emitted,
\* some emitted line contains <path>:<N>.
C8_AsClaimed ==
    (Returned /\ Len(OwnCalls) = 1) =>
        \A i \in 1..Len(exc.frames) :
            LET f == exc.frames[i]
            IN  ~Contains(FrameEntry(f), execute_code_name) =>
                    \E k \in 1..Len(traceback_lines) :
                        Contains(traceback_lines[k], f.path \o <<":">> \o ToStr(f.lineno))

\* C9 as claimed: the emitted lines are the entries of the formatted
\* traceback other than the one of execute_code itself, all of them and in
\* the original order.
C9_AsClaimed ==
    (Returned /\ Len(OwnCalls) = 1) =>
        Len(traceback_lines) = Len(format_exception(exc)) - 1

\* C10: in debug mode the three entry points are the replacements as long as
\* execute_code runs, and every call of the invocation, the traceback message
\* included, reaches the replacement's sink and none the host's; in non-debug
\* mode the entry points stay the host's and the traceback message reaches
\* the host's error sink.
C10_Delivery ==
    /\ (cur.is_debugging /\ pc \in {"execute_code", "script", "exec_done", "return", "raise"})
          => unreal = RedirectHandlers
    /\ cur.is_debugging =>
          \A i \in 1..Len(calls) : calls[i].sink = RedirectSink[calls[i].fn]
    /\ (pc # "idle" /\ ~cur.is_debugging) =>
          /\ unreal = HostHandlers
          /\ \A i \in 1..Len(OwnCalls) : OwnCalls[i].sink = "host.log_error"
          /\ \A i \in 1..Len(calls) : calls[i].sink = HostHandlers[calls[i].fn]

\* a debug invocation whose script logged and then failed has emitted the
\* traceback message
C10_Witness ==
    /\ cur.is_debugging
    /\ Returned
    /\ Len(OwnCalls) = 1
    /\ Len(calls) > 1
====
